---- MODULE Spec2Model ----
(***************************************************************************)
(* Data-collection notebooks of the Sudan disease-forecasting repository:  *)
(*   src/data_collection/OpenWeatherMap.ipynb  (weather per region/date)   *)
(*   src/data_collection/OpenStreetMap.ipynb   (OSM elements per region)   *)
(* Each notebook is a sequential program; a run executes its cells top to  *)
(* bottom and stops at the first cell that raises.  The two notebooks run  *)
(* in separate kernels, so a behaviour of the model is a run of one of     *)
(* them, chosen in Init.  The helper fetch_node_coordinates, which the     *)
(* OSM notebook defines and does not call, has runs of its own.            *)
(*                                                                         *)
(* Representation.  A DataFrame is a record column-name -> list of cells.  *)
(* A date string 'YYYY-MM-DD' is the tuple <<Y, M, D>>; a datetime is its  *)
(* proleptic Gregorian ordinal (days since 0001-01-01 = 1), as in          *)
(* datetime.toordinal().  Coordinates are integers (degrees).  A shapely   *)
(* geometry is a record with its type, its polygons' exterior rings and    *)
(* the two properties the notebooks read from the library: is_valid and    *)
(* centroid.  HTTP servers are the environment: a response is a status     *)
(* code with a JSON object body, as the documented interfaces say.         *)
(***************************************************************************)
EXTENDS Integers, Sequences, FiniteSets, TLC

(***************************************************************************)
(* Bounds of the model.                                                    *)
(***************************************************************************)
MaxRegions == 2        \* rows of the boundary table
MaxNodes == 101        \* ids in a list passed to fetch_node_coordinates
RepeatAfter == 60      \* period of the lists with repeated ids

VARIABLES
  notebook,         \* which notebook this run executes
  pc,               \* the statement the kernel executes next
  exc,              \* the exception that stopped the run ("" while none)
  gdf,              \* the boundary table
  row,              \* index of the row the running iterrows() loop is at
  centroids,        \* local list of get_centroid_coordinates
  start_date,       \* notebook globals: the date range, as date strings
  end_date,
  start_dt,         \* fetch_weather_for_geodataframe: the parsed range
  end_dt,
  current_date,     \* fetch_weather_for_geodataframe: loop date
  weather_records,  \* fetch_weather_for_geodataframe: result list
  sent,             \* HTTP requests issued so far, in order
  received,         \* HTTP responses received so far, in order
  stdout,           \* lines printed so far
  clock,            \* seconds spent in time.sleep
  weather_df,       \* the weather table
  merged_df,        \* the merged table
  osm_data,         \* OSM notebook: list of element lists
  files,            \* files written so far: <<path, content>>
  gdf_to_save,      \* weather notebook: the projection that is exported
  node_ids,         \* fetch_node_coordinates: its argument
  chunk_i,          \* fetch_node_coordinates: the loop variable i
  coordinates       \* fetch_node_coordinates: result list

vars == <<notebook, pc, exc, gdf, row, centroids, start_date, end_date,
          start_dt, end_dt, current_date, weather_records, sent, received,
          stdout, clock, weather_df, merged_df, osm_data, files, gdf_to_save,
          node_ids, chunk_i, coordinates>>

None == [none |-> TRUE]     \* Python None, also the value of an unbound frame
NoneList == << None >>      \* None where the code expects a list
Unset == << >>              \* an unbound list or date string
NaN == [nan |-> TRUE]       \* pandas missing value

(***************************************************************************)
(* datetime: strptime / strftime with '%Y-%m-%d', timedelta(days=7).       *)
(***************************************************************************)
is_leap(y) == y % 4 = 0 /\ (y % 100 # 0 \/ y % 400 = 0)

DAYS_IN_MONTH == <<31, 28, 31, 30, 31, 30, 31, 31, 30, 31, 30, 31>>

days_in_month(y, m) == IF m = 2 /\ is_leap(y) THEN 29 ELSE DAYS_IN_MONTH[m]

RECURSIVE days_before_month(_, _)
days_before_month(y, m) ==
  IF m = 1 THEN 0 ELSE days_before_month(y, m - 1) + days_in_month(y, m - 1)

days_before_year(y) ==
  (y - 1) * 365 + ((y - 1) \div 4) - ((y - 1) \div 100) + ((y - 1) \div 400)

\* datetime.strptime(s, '%Y-%m-%d'): date string -> datetime
strptime(s) == days_before_year(s[1]) + days_before_month(s[1], s[2]) + s[3]

\* the year an ordinal falls in
year_of(n) ==
  LET guess == ((n - 1) \div 366) + 1
  IN  CHOOSE y \in guess .. (guess + 6) :
        days_before_year(y) < n /\ n <= days_before_year(y + 1)

\* datetime.strftime('%Y-%m-%d'): datetime -> date string
strftime(n) ==
  LET y == year_of(n)
      d == n - days_before_year(y)
      m == CHOOSE k \in 1..12 :
             days_before_month(y, k) < d
             /\ d <= days_before_month(y, k) + days_in_month(y, k)
  IN  <<y, m, d - days_before_month(y, m)>>

\* variant: a fortnightly stride
timedelta_days_fortnight == 2 * 7

\* variant: a stride of eight days
timedelta_days_eight == 7 + 1

\* current_date += timedelta(days=7)
timedelta_days == 7

(***************************************************************************)
(* The boundary table.                                                     *)
(***************************************************************************)
Square(x, y, w) ==
  <<<<x, y>>, <<x + w, y>>, <<x + w, y + w>>, <<x, y + w>>, <<x, y>>>>

\* a valid polygon
PolyA == [geom_type |-> "Polygon", polygons |-> <<Square(30, 13, 4)>>,
          is_valid |-> TRUE, centroid |-> [x |-> 32, y |-> 15]]
\* a valid multi-polygon of two polygons
MultiB == [geom_type |-> "MultiPolygon",
           polygons |-> <<Square(22, 11, 2), Square(26, 11, 2)>>,
           is_valid |-> TRUE, centroid |-> [x |-> 25, y |-> 12]]
\* a self-intersecting (bow-tie) polygon: is_valid is False
BowC == [geom_type |-> "Polygon",
         polygons |-> <<<<<<20, 18>>, <<22, 20>>, <<22, 18>>, <<20, 20>>,
                         <<20, 18>>>>>>,
         is_valid |-> FALSE, centroid |-> [x |-> 21, y |-> 19]]

Geometries == {PolyA, MultiB, BowC}
ValidGeometries == {g \in Geometries : g.is_valid}

\* gpd.read_file(...).to_crs(epsg=4326): the GADM file is in EPSG:4326
BoundaryTable(geoms) ==
  [index |-> [k \in 1..Len(geoms) |-> k - 1],
   GID_1 |-> [k \in 1..Len(geoms) |-> k], geometry |-> geoms]

BoundaryTables ==
  { BoundaryTable(g) : g \in UNION { [1..n -> Geometries] : n \in 0..MaxRegions } }

NRows == Len(gdf.index)

\* the rows of a frame, as records of its columns
RowsOf(df) ==
  [k \in 1..Len(df.index) |-> [c \in DOMAIN df \ {"index"} |-> df[c][k]]]

\* df.drop(columns=name)
DropColumn(df, name) == [c \in DOMAIN df \ {name} |-> df[c]]

\* gdf[name] = values; pandas raises ValueError when the lengths differ
SetColumn(df, name, values) ==
  [c \in DOMAIN df \cup {name} |-> IF c = name THEN values ELSE df[c]]

(***************************************************************************)
(* Boundary loader: both notebooks.                                        *)
(***************************************************************************)
convert_coordinates_format(geometry) ==
  IF geometry.geom_type = "MultiPolygon"
  THEN << [k \in 1..Len(geometry.polygons) |-> geometry.polygons[k]] >>
  ELSE IF geometry.geom_type = "Polygon"
       THEN << geometry.polygons[1] >>
       ELSE << >>

\* gdf["coordinates"] = gdf["geometry"].progress_apply(...)
ConvertCoordinatesCell ==
  /\ pc = "convert_coordinates"
  /\ gdf' = SetColumn(gdf, "coordinates",
              [k \in 1..NRows |-> convert_coordinates_format(gdf.geometry[k])])
  /\ pc' = "get_centroid_coordinates"
  /\ UNCHANGED <<node_ids, chunk_i, coordinates, gdf_to_save,
                 notebook, exc, row, centroids, start_date, end_date,
                 start_dt, end_dt, current_date, weather_records, sent,
                 received, stdout, clock, weather_df, merged_df, osm_data,
                 files>>

\* get_centroid_coordinates: centroids = []
GetCentroidCall ==
  /\ pc = "get_centroid_coordinates"
  /\ centroids' = << >>
  /\ row' = 1
  /\ pc' = "centroid_loop"
  /\ UNCHANGED <<node_ids, chunk_i, coordinates, gdf_to_save,
                 notebook, exc, gdf, start_date, end_date, start_dt, end_dt,
                 current_date, weather_records, sent, received, stdout,
                 clock, weather_df, merged_df, osm_data, files>>

\* variant: no validity check
CentroidGuard_Unchecked(geometry) == TRUE

\* the guard of the centroid loop body
CentroidGuard(geometry) == geometry.is_valid

\* get_centroid_coordinates: one iteration of the iterrows() loop
GetCentroidIter ==
  /\ pc = "centroid_loop"
  /\ row <= NRows
  /\ LET geometry == gdf.geometry[row]
     IN  centroids' =
           IF CentroidGuard(geometry)
           THEN Append(centroids, <<geometry.centroid.y, geometry.centroid.x>>)
           ELSE centroids
  /\ row' = row + 1
  /\ UNCHANGED <<node_ids, chunk_i, coordinates, gdf_to_save,
                 notebook, pc, exc, gdf, start_date, end_date, start_dt,
                 end_dt, current_date, weather_records, sent, received,
                 stdout, clock, weather_df, merged_df, osm_data, files>>

\* return centroids; gdf["centroid_coordinates"] = <the returned list>
CentroidAssignCell ==
  /\ pc = "centroid_loop"
  /\ row > NRows
  /\ IF Len(centroids) = NRows
     THEN /\ gdf' = SetColumn(gdf, "centroid_coordinates", centroids)
          /\ pc' = IF notebook = "OpenWeatherMap" THEN "fetch_weather"
                   ELSE "osm_data"
          /\ exc' = exc
     ELSE /\ pc' = "raised"
          /\ exc' = "ValueError"
          /\ gdf' = gdf
  /\ UNCHANGED <<node_ids, chunk_i, coordinates, gdf_to_save,
                 notebook, row, centroids, start_date, end_date, start_dt,
                 end_dt, current_date, weather_records, sent, received,
                 stdout, clock, weather_df, merged_df, osm_data, files>>

Loader ==
  \/ ConvertCoordinatesCell
  \/ GetCentroidCall
  \/ GetCentroidIter
  \/ CentroidAssignCell

(***************************************************************************)
(* Weather fetcher: OpenWeatherMap.ipynb.                                  *)
(***************************************************************************)
\* the day_summary body the API documents for a 200 response
DaySummary(params) ==
  [lat |-> params.lat, lon |-> params.lon, tz |-> params.tz,
   date |-> params.date, units |-> params.units,
   cloud_cover |-> [afternoon |-> 0],
   humidity |-> [afternoon |-> 33],
   precipitation |-> [total |-> 0],
   temperature |-> [min |-> 13, max |-> 26, afternoon |-> 23, night |-> 16,
                    evening |-> 22, morning |-> 14],
   pressure |-> [afternoon |-> 1015],
   wind |-> [max |-> [speed |-> 8, direction |-> 120]]]

\* what the weather endpoint may answer to a request: a status code and a
\* JSON object, with a 'message' field (an error of the API) or without
WeatherResponses(params) ==
  { [status_code |-> 200, json |-> DaySummary(params)],
    [status_code |-> 201, json |-> DaySummary(params)],
    [status_code |-> 401, json |-> [cod |-> 401, message |-> "Invalid API key"]] }

\* response.json().get('message', 'Failed to fetch data')
GetMessage(json) ==
  IF "message" \in DOMAIN json THEN json.message ELSE "Failed to fetch data"

\* variant: every 2xx status counts as a success
StatusOk_Any2xx(status_code) == status_code \div 100 = 2

\* the test get_daily_weather applies to the response
StatusOk(status_code) == status_code = 200

\* get_daily_weather: the dictionary it returns for a response
get_daily_weather(lat, lon, date, tz, response) ==
  IF StatusOk(response.status_code)
  THEN [latitude |-> lat, longitude |-> lon, date |-> date,
        data |-> response.json]
  ELSE [latitude |-> lat, longitude |-> lon, date |-> date,
        error |-> GetMessage(response.json)]

\* locals of the for loop of fetch_weather_for_geodataframe
lat == gdf.centroid_coordinates[row][1]
lon == gdf.centroid_coordinates[row][2]
\* variant: the offset of UTC
tz_UTC == <<"+", 0, 0>>

tz == <<"+", 2, 0>>                        \* '+02:00'
date_str == strftime(current_date)

\* weather_df = fetch_weather_for_geodataframe(gdf, start_date, end_date)
FetchWeatherCall ==
  /\ pc = "fetch_weather"
  /\ weather_records' = << >>
  /\ start_dt' = strptime(start_date)
  /\ end_dt' = strptime(end_date)
  /\ row' = 1
  /\ pc' = "for_row"
  /\ UNCHANGED <<node_ids, chunk_i, coordinates, gdf_to_save,
                 notebook, exc, gdf, centroids, start_date, end_date,
                 current_date, sent, received, stdout, clock, weather_df,
                 merged_df, osm_data, files>>

\* for _, row in gdf.iterrows(): ... current_date = start_date
ForRow ==
  /\ pc = "for_row"
  /\ row <= NRows
  /\ current_date' = start_dt
  /\ pc' = "while"
  /\ UNCHANGED <<node_ids, chunk_i, coordinates, gdf_to_save,
                 notebook, exc, gdf, row, centroids, start_date, end_date,
                 start_dt, end_dt, weather_records, sent, received, stdout,
                 clock, weather_df, merged_df, osm_data, files>>

\* variant: a range that excludes end_date
WhileCond_Exclusive == current_date < end_dt

\* while current_date <= end_date
WhileCond == current_date <= end_dt

\* loop test true: get_daily_weather builds params and calls requests.get
RequestWeather ==
  /\ pc = "while"
  /\ WhileCond
  /\ sent' = Append(sent, [row |-> row, t |-> clock,
                           params |-> [lat |-> lat, lon |-> lon,
                                       date |-> date_str, tz |-> tz,
                                       units |-> "metric"]])
  /\ pc' = "requests_get"
  /\ UNCHANGED <<node_ids, chunk_i, coordinates, gdf_to_save,
                 notebook, exc, gdf, row, centroids, start_date, end_date,
                 start_dt, end_dt, current_date, weather_records, received,
                 stdout, clock, weather_df, merged_df, osm_data, files>>

\* loop test false: the next row
WhileExit ==
  /\ pc = "while"
  /\ ~WhileCond
  /\ row' = row + 1
  /\ pc' = "for_row"
  /\ UNCHANGED <<node_ids, chunk_i, coordinates, gdf_to_save,
                 notebook, exc, gdf, centroids, start_date, end_date,
                 start_dt, end_dt, current_date, weather_records, sent,
                 received, stdout, clock, weather_df, merged_df, osm_data,
                 files>>

\* variant: an error ends the run
AfterError_Abort == "raised"

\* variant: an error skips the pause
AfterError_NoPause == "while"

\* where the loop body goes after a response with an error
AfterError == "sleep"

\* requests.get returns; the rest of the loop body up to time.sleep
ReceiveWeather(response) ==
  /\ pc = "requests_get"
  /\ received' = Append(received, response)
  /\ LET weather_data == get_daily_weather(lat, lon, date_str, tz, response)
     IN  IF "error" \notin DOMAIN weather_data
         THEN /\ weather_records' =
                   Append(weather_records,
                          [latitude |-> lat, longitude |-> lon,
                           timezone |-> tz, date |-> date_str,
                           data |-> weather_data.data])
              /\ stdout' = stdout
              /\ pc' = "sleep"
         ELSE /\ stdout' = Append(stdout,
                   <<"Error fetching data for", lat, lon, "on", date_str,
                     weather_data.error>>)
              /\ weather_records' = weather_records
              /\ pc' = AfterError
  /\ current_date' = current_date + timedelta_days
  /\ UNCHANGED <<node_ids, chunk_i, coordinates, gdf_to_save,
                 notebook, exc, gdf, row, centroids, start_date, end_date,
                 start_dt, end_dt, sent, clock, weather_df, merged_df,
                 osm_data, files>>

ResponseWeather ==
  /\ pc = "requests_get"
  /\ \E response \in WeatherResponses(sent[Len(sent)].params) :
        ReceiveWeather(response)

\* time.sleep(1)
Sleep ==
  /\ pc = "sleep"
  /\ clock' = clock + 1
  /\ pc' = "while"
  /\ UNCHANGED <<node_ids, chunk_i, coordinates, gdf_to_save,
                 notebook, exc, gdf, row, centroids, start_date, end_date,
                 start_dt, end_dt, current_date, weather_records, sent,
                 received, stdout, weather_df, merged_df, osm_data, files>>

\* pd.DataFrame(records): a frame of no records has no columns
DataFrame(records) ==
  IF records = << >> THEN [index |-> << >>]
  ELSE [c \in {"index"} \cup DOMAIN records[1] |->
          IF c = "index" THEN [k \in 1..Len(records) |-> k - 1]
          ELSE [k \in 1..Len(records) |-> records[k][c]]]

\* return pd.DataFrame(weather_records)
FetchWeatherReturn ==
  /\ pc = "for_row"
  /\ row > NRows
  /\ weather_df' = DataFrame(weather_records)
  /\ pc' = "process_weather_data"
  /\ UNCHANGED <<node_ids, chunk_i, coordinates, gdf_to_save,
                 notebook, exc, gdf, row, centroids, start_date, end_date,
                 start_dt, end_dt, current_date, weather_records, sent,
                 received, stdout, clock, merged_df, osm_data, files>>

FetchWeather ==
  \/ FetchWeatherCall
  \/ ForRow
  \/ RequestWeather
  \/ WhileExit
  \/ ResponseWeather
  \/ Sleep
  \/ FetchWeatherReturn

(***************************************************************************)
(* Process and merge: OpenWeatherMap.ipynb.                                *)
(***************************************************************************)
process_weather_data(data) ==
  [cloud_cover |-> data.cloud_cover.afternoon,
   humidity_percentage |-> data.humidity.afternoon,
   precipitation_total_mm |-> data.precipitation.total,
   temperature_min_celsius |-> data.temperature.min,
   temperature_max_celsius |-> data.temperature.max,
   temperature_afternoon_celsius |-> data.temperature.afternoon,
   temperature_night_celsius |-> data.temperature.night,
   temperature_evening_celsius |-> data.temperature.evening,
   temperature_morning_celsius |-> data.temperature.morning,
   pressure_hpa |-> data.pressure.afternoon,
   wind_max_speed_kmh |-> data.wind.max.speed,
   wind_max_direction_degrees |-> data.wind.max.direction]

ProcessedColumns == DOMAIN process_weather_data(DaySummary(
  [lat |-> 0, lon |-> 0, tz |-> tz, date |-> <<1, 1, 1>>, units |-> "metric"]))

\* processed_data = weather_df['data'].apply(process_weather_data)
\* processed_df = pd.DataFrame(processed_data.tolist())
\* weather_df = pd.concat([weather_df, processed_df], axis=1)
ProcessWeatherCells ==
  /\ pc = "process_weather_data"
  /\ IF "data" \notin DOMAIN weather_df
     THEN /\ pc' = "raised"
          /\ exc' = "KeyError"
          /\ weather_df' = weather_df
     ELSE /\ weather_df' =
               [c \in DOMAIN weather_df \cup ProcessedColumns |->
                  IF c \in DOMAIN weather_df THEN weather_df[c]
                  ELSE [k \in 1..Len(weather_df.index) |->
                          process_weather_data(weather_df.data[k])[c]]]
          /\ pc' = "latitude_longitude"
          /\ exc' = exc
  /\ UNCHANGED <<node_ids, chunk_i, coordinates, gdf_to_save,
                 notebook, gdf, row, centroids, start_date, end_date,
                 start_dt, end_dt, current_date, weather_records, sent,
                 received, stdout, clock, merged_df, osm_data, files>>

\* gdf[['latitude', 'longitude']] = pd.DataFrame(gdf['centroid_coordinates'].tolist(), ...)
LatitudeLongitudeCell ==
  /\ pc = "latitude_longitude"
  /\ gdf' = SetColumn(
              SetColumn(gdf, "latitude",
                [k \in 1..NRows |-> gdf.centroid_coordinates[k][1]]),
              "longitude",
              [k \in 1..NRows |-> gdf.centroid_coordinates[k][2]])
  /\ pc' = "merge"
  /\ UNCHANGED <<node_ids, chunk_i, coordinates, gdf_to_save,
                 notebook, exc, row, centroids, start_date, end_date,
                 start_dt, end_dt, current_date, weather_records, sent,
                 received, stdout, clock, weather_df, merged_df, osm_data,
                 files>>

RECURSIVE Flatten(_)
Flatten(seqs) ==
  IF seqs = << >> THEN << >> ELSE Head(seqs) \o Flatten(Tail(seqs))

\* the rows of 'right' whose key columns equal those of the left row l
Matches(l, right, on) ==
  SelectSeq(RowsOf(right), LAMBDA r : \A c \in on : r[c] = l[c])

\* variant: how='inner', a left row without a match is dropped
MergeRowsFor_Inner(l, right, on) ==
  [j \in 1..Len(Matches(l, right, on)) |->
     [left |-> l, right |-> Matches(l, right, on)[j]]]

\* the rows a left row contributes to a merge with how='left'
MergeRowsFor(l, right, on) ==
  IF Matches(l, right, on) = << >>
  THEN << [left |-> l, right |-> NaN] >>
  ELSE [j \in 1..Len(Matches(l, right, on)) |->
          [left |-> l, right |-> Matches(l, right, on)[j]]]

\* pd.merge(left, right, on=on, how='left').  A merged row is the pair of
\* its left row and the right row joined to it; right = NaN stands for a
\* row whose right-hand columns are all missing.
merge(left, right, on) ==
  LET rows == Flatten([k \in 1..Len(left.index) |->
                         MergeRowsFor(RowsOf(left)[k], right, on)])
  IN  [index |-> [k \in 1..Len(rows) |-> k - 1], rows |-> rows]

\* merged_df = pd.merge(gdf, weather_df, on=['latitude', 'longitude'], how='left')
MergeCell ==
  /\ pc = "merge"
  /\ merged_df' = merge(gdf, weather_df, {"latitude", "longitude"})
  /\ pc' = "gdf_to_save"
  /\ UNCHANGED <<node_ids, chunk_i, coordinates, gdf_to_save,
                 notebook, exc, gdf, row, centroids, start_date, end_date,
                 start_dt, end_dt, current_date, weather_records, sent,
                 received, stdout, clock, weather_df, osm_data, files>>

MergeWeather ==
  \/ ProcessWeatherCells
  \/ LatitudeLongitudeCell
  \/ MergeCell

(***************************************************************************)
(* Export: OpenWeatherMap.ipynb.                                           *)
(***************************************************************************)
\* the columns gdf_to_save selects, among those of the modelled tables
\* (GID_1 stands for the attribute columns of the boundary file)
SavedColumns ==
  {"GID_1", "geometry", "coordinates", "centroid_coordinates", "latitude",
   "longitude", "date"} \cup ProcessedColumns

\* the columns of the merged table: those of the left frame, then those of
\* the right frame that are not join keys
MergedColumns == (DOMAIN gdf \cup DOMAIN weather_df) \ {"index"}

\* the cell of a merged row in a column
MergedCell(r, c) ==
  IF c \in DOMAIN r.left THEN r.left[c]
  ELSE IF r.right = NaN THEN NaN ELSE r.right[c]

\* merged_df[[...]].copy().reset_index(drop=True)
Projection(merged, columns) ==
  [c \in columns \cup {"index"} |->
     IF c = "index" THEN [k \in 1..Len(merged.rows) |-> k - 1]
     ELSE [k \in 1..Len(merged.rows) |-> MergedCell(merged.rows[k], c)]]

\* gdf_to_save = merged_df[[...]].copy().reset_index(drop=True)
GdfToSaveCell ==
  /\ pc = "gdf_to_save"
  /\ IF SavedColumns \subseteq MergedColumns
     THEN /\ gdf_to_save' = Projection(merged_df, SavedColumns)
          /\ pc' = "to_csv"
          /\ exc' = exc
     ELSE /\ pc' = "raised"
          /\ exc' = "KeyError"
          /\ gdf_to_save' = gdf_to_save
  /\ UNCHANGED <<node_ids, chunk_i, coordinates, notebook, gdf, row,
                 centroids, start_date, end_date, start_dt, end_dt,
                 current_date, weather_records, sent, received, stdout, clock,
                 weather_df, merged_df, osm_data, files>>

\* variant: drop(columns=..., inplace=True)
AfterDrop_InPlace(df, name) == DropColumn(df, name)

\* the frame a name is bound to after name.drop(columns=...): drop returns
\* a new frame and leaves its receiver alone
AfterDrop(df, name) == df

\* to_csv(path, index=False): a header and one line of cells per row
to_csv(df) ==
  [columns |-> DOMAIN df \ {"index"},
   lines |-> [k \in 1..Len(df.index) |-> [c \in DOMAIN df \ {"index"} |-> df[c][k]]]]

\* to_json(path, orient='records'): a list of one object per row
to_json(df) == RowsOf(df)

\* field names of an ESRI Shapefile are at most 10 characters long: the
\* names the writer gave the columns of gdf_to_save
LaunderedName ==
  [c \in SavedColumns |->
     CASE c = "coordinates" -> "coordinate"
       [] c = "centroid_coordinates" -> "centroid_c"
       [] c = "cloud_cover" -> "cloud_cove"
       [] c = "humidity_percentage" -> "humidity_p"
       [] c = "precipitation_total_mm" -> "precipitat"
       [] c = "temperature_min_celsius" -> "temperatur"
       [] c = "temperature_max_celsius" -> "temperat_1"
       [] c = "temperature_afternoon_celsius" -> "temperat_2"
       [] c = "temperature_night_celsius" -> "temperat_3"
       [] c = "temperature_evening_celsius" -> "temperat_4"
       [] c = "temperature_morning_celsius" -> "temperat_5"
       [] c = "pressure_hpa" -> "pressure_h"
       [] c = "wind_max_speed_kmh" -> "wind_max_s"
       [] c = "wind_max_direction_degrees" -> "wind_max_d"
       [] OTHER -> c]

\* to_file(path, driver=...): one feature per row, the geometry and the
\* other columns as its fields, named by 'name'
to_file(df, name) ==
  [k \in 1..Len(df.index) |->
     [geometry |-> df.geometry[k],
      fields |-> [n \in {name[c] : c \in DOMAIN df \ {"index", "geometry"}} |->
                    df[CHOOSE c \in DOMAIN df \ {"index", "geometry"} : name[c] = n][k]]]]

\* gdf_to_save.drop(columns='geometry').to_csv(..., index=False)
WeatherCsvCell ==
  /\ pc = "to_csv"
  /\ IF "geometry" \in DOMAIN gdf_to_save
     THEN /\ files' = Append(files,
                 <<"openweathermap_for_sdn_by_state.csv",
                   to_csv(DropColumn(gdf_to_save, "geometry"))>>)
          /\ gdf_to_save' = AfterDrop(gdf_to_save, "geometry")
          /\ pc' = "to_json"
          /\ exc' = exc
     ELSE /\ pc' = "raised"
          /\ exc' = "KeyError"
          /\ UNCHANGED <<files, gdf_to_save>>
  /\ UNCHANGED <<node_ids, chunk_i, coordinates, notebook, gdf, row,
                 centroids, start_date, end_date, start_dt, end_dt,
                 current_date, weather_records, sent, received, stdout, clock,
                 weather_df, merged_df, osm_data>>

\* gdf_to_save.drop(columns='geometry').to_json(..., orient='records')
WeatherJsonCell ==
  /\ pc = "to_json"
  /\ IF "geometry" \in DOMAIN gdf_to_save
     THEN /\ files' = Append(files,
                 <<"openweathermap_for_sdn_by_state.json",
                   to_json(DropColumn(gdf_to_save, "geometry"))>>)
          /\ gdf_to_save' = AfterDrop(gdf_to_save, "geometry")
          /\ pc' = "to_geojson"
          /\ exc' = exc
     ELSE /\ pc' = "raised"
          /\ exc' = "KeyError"
          /\ UNCHANGED <<files, gdf_to_save>>
  /\ UNCHANGED <<node_ids, chunk_i, coordinates, notebook, gdf, row,
                 centroids, start_date, end_date, start_dt, end_dt,
                 current_date, weather_records, sent, received, stdout, clock,
                 weather_df, merged_df, osm_data>>

\* a to_file statement of the last cell; a frame without a geometry
\* column cannot be written
WeatherToFile(label, next, path, name) ==
  /\ pc = label
  /\ IF "geometry" \in DOMAIN gdf_to_save
     THEN /\ files' = Append(files, <<path, to_file(gdf_to_save, name)>>)
          /\ pc' = next
          /\ exc' = exc
     ELSE /\ pc' = "raised"
          /\ exc' = "AttributeError"
          /\ files' = files
  /\ UNCHANGED <<node_ids, chunk_i, coordinates, gdf_to_save, notebook, gdf,
                 row, centroids, start_date, end_date, start_dt, end_dt,
                 current_date, weather_records, sent, received, stdout, clock,
                 weather_df, merged_df, osm_data>>

\* gdf_to_save.to_file(..., driver="GeoJSON")
WeatherGeoJsonFile ==
  WeatherToFile("to_geojson", "to_shapefile",
                "openweathermap_for_sdn_by_state.geojson",
                [c \in SavedColumns |-> c])

\* gdf_to_save.to_file(..., driver="ESRI Shapefile")
WeatherShapefile ==
  WeatherToFile("to_shapefile", "done",
                "openweathermap_for_sdn_by_state.shp", LaunderedName)

ExportWeather ==
  \/ GdfToSaveCell
  \/ WeatherCsvCell
  \/ WeatherJsonCell
  \/ WeatherGeoJsonFile
  \/ WeatherShapefile

(***************************************************************************)
(* OSM fetcher: OpenStreetMap.ipynb.                                       *)
(***************************************************************************)
SetMin(S) == CHOOSE m \in S : \A v \in S : m <= v
SetMax(S) == CHOOSE m \in S : \A v \in S : v <= m

Coords(geometry) ==
  UNION { { geometry.polygons[p][k] : k \in 1..Len(geometry.polygons[p]) } :
          p \in 1..Len(geometry.polygons) }

\* shapely geometry.bounds: (minx, miny, maxx, maxy)
Bounds(geometry) ==
  << SetMin({c[1] : c \in Coords(geometry)}),
     SetMin({c[2] : c \in Coords(geometry)}),
     SetMax({c[1] : c \in Coords(geometry)}),
     SetMax({c[2] : c \in Coords(geometry)}) >>

\* variant: the bounds returned in source order
get_bbox_from_multipolygon_SourceOrder(multipolygon) == Bounds(multipolygon)

get_bbox_from_multipolygon(multipolygon) ==
  LET bounds == Bounds(multipolygon)
  IN  <<bounds[2], bounds[1], bounds[4], bounds[3]>>

\* what the Overpass endpoint may answer to the query for a bounding box
OverpassResponses(bbox) ==
  { [status_code |-> 200,
     json |-> [version |-> 6,
               elements |-> << [type |-> "way", id |-> 1, bbox |-> bbox] >>]],
    [status_code |-> 200, json |-> [version |-> 6]],
    [status_code |-> 204, json |-> [version |-> 6]],
    [status_code |-> 429, json |-> [version |-> 6]] }

\* response.raise_for_status() raises HTTPError for 4xx and 5xx only
raise_for_status(status_code) == 400 <= status_code /\ status_code < 600

\* osm_data.get('elements', [])
GetElements(json) ==
  IF "elements" \in DOMAIN json THEN json.elements ELSE << >>

\* osm_data = list()
OsmDataCell ==
  /\ pc = "osm_data"
  /\ osm_data' = << >>
  /\ row' = 1
  /\ pc' = "osm_for_row"
  /\ UNCHANGED <<node_ids, chunk_i, coordinates, gdf_to_save,
                 notebook, exc, gdf, centroids, start_date, end_date,
                 start_dt, end_dt, current_date, weather_records, sent,
                 received, stdout, clock, weather_df, merged_df, files>>

\* loop body up to requests.get in get_osm_data_from_bbox
RequestOsm ==
  /\ pc = "osm_for_row"
  /\ row <= NRows
  /\ sent' = Append(sent, [row |-> row, t |-> clock,
                 params |-> [bbox |-> get_bbox_from_multipolygon(gdf.geometry[row])]])
  /\ pc' = "osm_requests_get"
  /\ UNCHANGED <<node_ids, chunk_i, coordinates, gdf_to_save,
                 notebook, exc, gdf, row, centroids, start_date, end_date,
                 start_dt, end_dt, current_date, weather_records, received,
                 stdout, clock, weather_df, merged_df, osm_data, files>>

\* requests.get returns; get_osm_data_from_bbox returns or raises; append
ReceiveOsm(response) ==
  /\ pc = "osm_requests_get"
  /\ received' = Append(received, response)
  /\ IF response.status_code = 200
     THEN /\ osm_data' = Append(osm_data, GetElements(response.json))
          /\ row' = row + 1
          /\ pc' = "osm_for_row"
          /\ exc' = exc
     ELSE IF raise_for_status(response.status_code)
          THEN /\ pc' = "raised"
               /\ exc' = "HTTPError"
               /\ UNCHANGED <<osm_data, row>>
          ELSE /\ osm_data' = Append(osm_data, NoneList)
               /\ row' = row + 1
               /\ pc' = "osm_for_row"
               /\ exc' = exc
  /\ UNCHANGED <<node_ids, chunk_i, coordinates, gdf_to_save,
                 notebook, gdf, centroids, start_date, end_date, start_dt,
                 end_dt, current_date, weather_records, sent, stdout, clock,
                 weather_df, merged_df, files>>

ResponseOsm ==
  /\ pc = "osm_requests_get"
  /\ \E response \in OverpassResponses(sent[Len(sent)].params.bbox) :
        ReceiveOsm(response)

\* gdf["osm_data"] = osm_data
OsmAssignCell ==
  /\ pc = "osm_for_row"
  /\ row > NRows
  /\ IF Len(osm_data) = NRows
     THEN /\ gdf' = SetColumn(gdf, "osm_data", osm_data)
          /\ pc' = "osm_to_csv"
          /\ exc' = exc
     ELSE /\ pc' = "raised"
          /\ exc' = "ValueError"
          /\ gdf' = gdf
  /\ UNCHANGED <<node_ids, chunk_i, coordinates, gdf_to_save,
                 notebook, row, centroids, start_date, end_date, start_dt,
                 end_dt, current_date, weather_records, sent, received,
                 stdout, clock, weather_df, merged_df, osm_data, files>>

\* a cell of the OSM notebook that writes 'content' to 'path'
OsmExport(label, next, path, content) ==
  /\ pc = label
  /\ files' = Append(files, <<path, content>>)
  /\ pc' = next
  /\ UNCHANGED <<node_ids, chunk_i, coordinates, gdf_to_save,
                 notebook, exc, gdf, row, centroids, start_date, end_date,
                 start_dt, end_dt, current_date, weather_records, sent,
                 received, stdout, clock, weather_df, merged_df, osm_data>>

\* gdf.drop(columns='geometry').to_csv(...)
OsmCsvCell ==
  OsmExport("osm_to_csv", "osm_to_json",
            "openstreetmap_sdn_by_state_district.csv",
            DropColumn(gdf, "geometry"))

\* gdf.drop(columns='geometry').to_json(..., orient='records')
OsmJsonCell ==
  OsmExport("osm_to_json", "osm_to_file",
            "openstreetmap_sdn_by_state_district.json",
            DropColumn(gdf, "geometry"))

\* gdf.to_file(..., driver="GeoJSON")
OsmGeoJsonCell ==
  OsmExport("osm_to_file", "done",
            "openstreetmap_sdn_by_state_district.geojson", gdf)

FetchOsm ==
  \/ OsmDataCell
  \/ RequestOsm
  \/ ResponseOsm
  \/ OsmAssignCell
  \/ OsmCsvCell
  \/ OsmJsonCell
  \/ OsmGeoJsonCell

(***************************************************************************)
(* Node lookup helper of OpenStreetMap.ipynb: fetch_node_coordinates.      *)
(***************************************************************************)
\* chunk_size=50, the default of the parameter
chunk_size == 50

\* s[a:b] of a Python list (0 <= a <= b)
Slice(s, a, b) ==
  SubSeq(s, a + 1, IF b < Len(s) THEN b ELSE Len(s))

\* variant: a slice that takes one id too many
chunk_Overlapping == Slice(node_ids, chunk_i, chunk_i + chunk_size + 1)

\* chunk = node_ids[i:i + chunk_size]
chunk == Slice(node_ids, chunk_i, chunk_i + chunk_size)

\* the Overpass-QL text built from a chunk: node(id,id,...)
Query(ids) == <<"[out:json]; node(", ids, "); out body;">>

\* the node the server holds for an id
NodeElement(id) ==
  [type |-> "node", id |-> id, lat |-> 10 + (id % 7), lon |-> 22 + (id % 11)]

\* what the Overpass endpoint may answer to the query for a chunk: every
\* node, every node but the first of the chunk (a deleted node), or an
\* error status
NodeResponses(ids) ==
  { [status_code |-> 200,
     json |-> [version |-> 6,
               elements |-> [k \in 1..Len(ids) |-> NodeElement(ids[k])]]],
    [status_code |-> 200,
     json |-> [version |-> 6,
               elements |-> [k \in 1..Len(SelectSeq(ids, LAMBDA id : id # ids[1])) |->
                               NodeElement(SelectSeq(ids, LAMBDA id : id # ids[1])[k])]]],
    [status_code |-> 504, text |-> "Gateway Timeout"] }

\* nodes = {node['id']: (node['lat'], node['lon']) for node in elements}
NodesDict(elements) ==
  [id \in {elements[k].id : k \in 1..Len(elements)} |->
     LET last == CHOOSE k \in 1..Len(elements) :
                   /\ elements[k].id = id
                   /\ \A j \in (k + 1)..Len(elements) : elements[j].id # id
     IN  <<elements[last].lat, elements[last].lon>>]

\* [nodes[node_id] for node_id in chunk if node_id in nodes]
FoundCoordinates(ids, nodes) ==
  LET found == SelectSeq(ids, LAMBDA id : id \in DOMAIN nodes)
  IN  [k \in 1..Len(found) |-> nodes[found[k]]]

\* coordinates = []; for i in range(0, len(node_ids), chunk_size)
FetchNodesCall ==
  /\ pc = "fetch_node_coordinates"
  /\ coordinates' = << >>
  /\ chunk_i' = 0
  /\ pc' = "for_chunk"
  /\ UNCHANGED <<node_ids, gdf_to_save, notebook, exc, gdf, row, centroids,
                 start_date, end_date, start_dt, end_dt, current_date,
                 weather_records, sent, received, stdout, clock, weather_df,
                 merged_df, osm_data, files>>

\* loop body up to requests.get: the two prints and the request
RequestNodes ==
  /\ pc = "for_chunk"
  /\ chunk_i < Len(node_ids)
  /\ stdout' = stdout \o << <<"Querying for nodes:", chunk>>,
                            <<"Query:", Query(chunk)>> >>
  /\ sent' = Append(sent, [t |-> clock, params |-> [data |-> Query(chunk)]])
  /\ pc' = "nodes_requests_get"
  /\ UNCHANGED <<node_ids, chunk_i, coordinates, gdf_to_save, notebook, exc,
                 gdf, row, centroids, start_date, end_date, start_dt, end_dt,
                 current_date, weather_records, received, clock, weather_df,
                 merged_df, osm_data, files>>

\* variant: a failed chunk ends the loop
AfterNodesError_Return == Len(node_ids)

\* the value of i the loop goes on with after a failed chunk
AfterNodesError == chunk_i + chunk_size

\* requests.get returns; the rest of the loop body
ReceiveNodes(response) ==
  /\ pc = "nodes_requests_get"
  /\ received' = Append(received, response)
  /\ IF response.status_code = 200
     THEN /\ coordinates' =
               coordinates \o
               FoundCoordinates(chunk, NodesDict(response.json.elements))
          /\ stdout' = stdout
          /\ chunk_i' = chunk_i + chunk_size
     ELSE /\ stdout' = Append(stdout,
                 <<"Failed to fetch data for nodes", chunk, "Status code:",
                   response.status_code>>)
          /\ coordinates' = coordinates
          /\ chunk_i' = AfterNodesError
  /\ pc' = "for_chunk"
  /\ UNCHANGED <<node_ids, gdf_to_save, notebook, exc, gdf, row, centroids,
                 start_date, end_date, start_dt, end_dt, current_date,
                 weather_records, sent, clock, weather_df, merged_df,
                 osm_data, files>>

ResponseNodes ==
  /\ pc = "nodes_requests_get"
  /\ \E response \in NodeResponses(chunk) : ReceiveNodes(response)

\* return coordinates
FetchNodesReturn ==
  /\ pc = "for_chunk"
  /\ chunk_i >= Len(node_ids)
  /\ pc' = "nodes_returned"
  /\ UNCHANGED <<node_ids, chunk_i, coordinates, gdf_to_save, notebook, exc,
                 gdf, row, centroids, start_date, end_date, start_dt, end_dt,
                 current_date, weather_records, sent, received, stdout, clock,
                 weather_df, merged_df, osm_data, files>>

FetchNodes ==
  \/ FetchNodesCall
  \/ RequestNodes
  \/ ResponseNodes
  \/ FetchNodesReturn

(***************************************************************************)
(* Initial states.                                                         *)
(***************************************************************************)
\* date ranges of the bounded runs: the end before the start, equal to it,
\* six days, seven days (across 29 February) after it
StartDates == { <<2024, 2, 26>> }
EndDates == { <<2024, 2, 25>>, <<2024, 2, 26>>, <<2024, 3, 3>>, <<2024, 3, 4>> }

InitCommon ==
  /\ pc = "convert_coordinates"
  /\ exc = ""
  /\ row = 0
  /\ centroids = << >>
  /\ start_dt = 0
  /\ end_dt = 0
  /\ current_date = 0
  /\ weather_records = << >>
  /\ sent = << >>
  /\ received = << >>
  /\ stdout = << >>
  /\ clock = 0
  /\ weather_df = None
  /\ merged_df = None
  /\ osm_data = Unset
  /\ files = << >>
  /\ gdf_to_save = None
  /\ node_ids = Unset
  /\ chunk_i = 0
  /\ coordinates = Unset

Init ==
  /\ InitCommon
  /\ gdf \in BoundaryTables
  /\ \/ /\ notebook = "OpenWeatherMap"
        /\ start_date \in StartDates
        /\ end_date \in EndDates
     \/ /\ notebook = "OpenStreetMap"
        /\ start_date = Unset
        /\ end_date = Unset

Next == Loader \/ FetchWeather \/ MergeWeather \/ ExportWeather \/ FetchOsm

Spec == Init /\ [][Next]_vars

(***************************************************************************)
(* Runs of the weather notebook over a table of valid regions, with the    *)
(* scheduling of a kernel: a statement that can run does run.              *)
(***************************************************************************)
InitLive ==
  /\ InitCommon
  /\ notebook = "OpenWeatherMap"
  /\ gdf \in { BoundaryTable([k \in 1..n |-> IF k % 2 = 1 THEN PolyA ELSE MultiB]) :
                n \in 0..MaxRegions }
  /\ start_date \in StartDates
  /\ end_date \in EndDates

NextLive == Loader \/ FetchWeather \/ MergeWeather \/ ExportWeather

LiveSpec == InitLive /\ [][NextLive]_vars /\ WF_vars(NextLive)

(***************************************************************************)
(* The one-year run of the weather notebook: start_date = '2024-01-01',    *)
(* end_date = '2024-12-31', up to the return of the fetch.  In this run    *)
(* the endpoint answers every request alike: all succeed, or all fail the  *)
(* same way (an invalid key, an outage).  Runs with mixed outcomes are     *)
(* those of Spec.                                                          *)
(***************************************************************************)
ResponseWeatherYear ==
  /\ pc = "requests_get"
  /\ \E response \in WeatherResponses(sent[Len(sent)].params) :
        /\ IF received = << >> THEN TRUE
           ELSE response.status_code = received[1].status_code
        /\ ReceiveWeather(response)

InitYear ==
  /\ InitCommon
  /\ notebook = "OpenWeatherMap"
  /\ gdf \in {BoundaryTable(<<PolyA>>), BoundaryTable(<<PolyA, MultiB>>)}
  /\ start_date = <<2024, 1, 1>>
  /\ end_date = <<2024, 12, 31>>

NextYear ==
  \/ Loader
  \/ FetchWeatherCall
  \/ ForRow
  \/ RequestWeather
  \/ WhileExit
  \/ ResponseWeatherYear
  \/ Sleep
  \/ FetchWeatherReturn

SpecYear == InitYear /\ [][NextYear]_vars

(***************************************************************************)
(* Calls of fetch_node_coordinates(node_ids) with the default chunk size,  *)
(* on lists of 0 to MaxNodes ids: distinct ids, and ids that repeat after  *)
(* RepeatAfter positions.                                                  *)
(***************************************************************************)
NodeLists ==
  { [k \in 1..n |-> 1000 + k] : n \in 0..MaxNodes }
  \cup { [k \in 1..n |-> 1000 + ((k - 1) % RepeatAfter)] : n \in 0..MaxNodes }

InitNodes ==
  /\ notebook = "OpenStreetMap"
  /\ pc = "fetch_node_coordinates"
  /\ node_ids \in NodeLists
  /\ chunk_i = 0
  /\ coordinates = Unset
  /\ gdf = BoundaryTable(<< >>)
  /\ exc = ""
  /\ row = 0
  /\ centroids = << >>
  /\ start_date = Unset
  /\ end_date = Unset
  /\ start_dt = 0
  /\ end_dt = 0
  /\ current_date = 0
  /\ weather_records = << >>
  /\ sent = << >>
  /\ received = << >>
  /\ stdout = << >>
  /\ clock = 0
  /\ weather_df = None
  /\ merged_df = None
  /\ osm_data = Unset
  /\ files = << >>
  /\ gdf_to_save = None

NextNodes == FetchNodes

SpecNodes == InitNodes /\ [][NextNodes]_vars

(***************************************************************************)
(* Properties.                                                             *)
(***************************************************************************)
Weather == notebook = "OpenWeatherMap"
Osm == notebook = "OpenStreetMap"

\* fetch_weather_for_geodataframe has returned
Returned == Weather /\ weather_df # None

IsPrefix(s, t) == Len(s) <= Len(t) /\ \A k \in 1..Len(s) : s[k] = t[k]

\* the sampled dates of the range: start + 7k, up to and including the end
SampledDates ==
  { d \in strptime(start_date)..strptime(end_date) :
      (d - strptime(start_date)) % 7 = 0 }

\* the requests of a complete fetch: region-major, dates ascending
ExpectedRequests ==
  Flatten([r \in 1..NRows |->
            [k \in 1..Cardinality(SampledDates) |->
               <<r, gdf.geometry[r].centroid.y, gdf.geometry[r].centroid.x,
                 strftime(strptime(start_date) + 7 * (k - 1))>>]])

SentRequests ==
  [k \in 1..Len(sent) |->
     <<sent[k].row, sent[k].params.lat, sent[k].params.lon, sent[k].params.date>>]

RequestsFor(r) == Cardinality({k \in 1..Len(sent) : sent[k].row = r})

\* C1: the weather requests issued so far are the first requests of the
\* sequence (region, sampled date) in region-major, date-ascending order,
\* one per pair, no pair twice; when the fetch has returned they are the
\* whole sequence, whatever the outcomes were.
C1_OneRequestPerPair ==
  Weather =>
    /\ IsPrefix(SentRequests, ExpectedRequests)
    /\ Returned => SentRequests = ExpectedRequests
    /\ \A i, j \in 1..Len(sent) :
         i # j => <<sent[i].row, sent[i].params.date>>
                    # <<sent[j].row, sent[j].params.date>>

\* a fetch of two regions and two dates each has returned after a failure
C1_Witness ==
  /\ Returned
  /\ NRows = 2
  /\ Len(sent) = 4
  /\ \E k \in 1..Len(received) : received[k].status_code # 200

DaysInRange == strptime(end_date) - strptime(start_date)

CeilDiv(a, b) == (a + b - 1) \div b

\* C2 as stated: for the range 2024-01-01 to 2024-12-31 every region gets
\* ceil(days_in_range / 7) + 1 requests.
C2_CeilPlusOne ==
  Returned =>
    \A r \in 1..NRows : RequestsFor(r) = CeilDiv(DaysInRange, 7) + 1

\* C2 amended: for the range 2024-01-01 to 2024-12-31 every region gets
\* floor(days_in_range / 7) + 1 = 53 requests, days_in_range being the 365
\* days from the start date to the end date.
C2_FloorPlusOne ==
  Returned =>
    \A r \in 1..NRows :
       /\ RequestsFor(r) = (DaysInRange \div 7) + 1
       /\ RequestsFor(r) = 53

\* the one-year fetch of two regions has returned
C2_Witness ==
  /\ Returned
  /\ start_date = <<2024, 1, 1>>
  /\ end_date = <<2024, 12, 31>>
  /\ NRows = 2
  /\ Len(sent) = 106

\* C3 as stated: once an Overpass response with a status other than 200
\* has arrived for region k, the run has stopped with the exception:
\* osm_data holds the k-1 earlier lists only, no later region was queried,
\* gdf has no osm_data column and no file was written.
C3_Non200Aborts ==
  Osm =>
    \A k \in 1..Len(received) :
       received[k].status_code # 200 =>
         /\ pc = "raised"
         /\ Len(osm_data) = k - 1
         /\ Len(sent) = k
         /\ "osm_data" \notin DOMAIN gdf
         /\ files = << >>

\* the record fetch_weather_for_geodataframe appends for a request
RecordOf(request, response) ==
  [latitude |-> request.params.lat, longitude |-> request.params.lon,
   timezone |-> <<"+", 2, 0>>, date |-> request.params.date,
   data |-> response.json]

\* the line it prints for a request
LineOf(request, response) ==
  <<"Error fetching data for", request.params.lat, request.params.lon, "on",
    request.params.date,
    IF "message" \in DOMAIN response.json THEN response.json.message
    ELSE "Failed to fetch data">>

\* a step in which the response to the last weather request arrives
Arrives == Weather /\ Len(received') = Len(received) + 1

\* the step appends the record of the request and prints nothing
StepRecords ==
  /\ weather_records' =
       Append(weather_records, RecordOf(sent[Len(sent)], received'[Len(received')]))
  /\ stdout' = stdout

\* the step appends no record and prints the message of the response
StepPrints ==
  /\ weather_records' = weather_records
  /\ stdout' = Append(stdout, LineOf(sent[Len(sent)], received'[Len(received')]))

\* C4 as stated: a response is recorded exactly when its status is 2xx;
\* for any other status nothing is recorded and the message is printed.
C4_RecordedIff2xx ==
  [][Arrives =>
       IF received'[Len(received')].status_code \div 100 = 2
       THEN StepRecords ELSE StepPrints]_vars

\* C4 amended: a response is recorded exactly when its status is 200; for
\* every other status, 2xx included, nothing is recorded and the message
\* of the body (or 'Failed to fetch data' without a message field) is
\* printed.
C4_RecordedIff200 ==
  [][Arrives =>
       IF received'[Len(received')].status_code = 200
       THEN StepRecords ELSE StepPrints]_vars

\* a fetch has seen a 200, a 201 without a message and a 401 with one
C4_Witness ==
  /\ Weather
  /\ {received[k].status_code : k \in 1..Len(received)} = {200, 201, 401}
  /\ Len(weather_records) = 1
  /\ Len(stdout) = 2
  /\ stdout[1][6] # stdout[2][6]

\* the records of the requests answered with status 200, in request order
RECURSIVE SuccessfulRecords(_)
SuccessfulRecords(n) ==
  IF n = 0 THEN << >>
  ELSE IF received[n].status_code = 200
       THEN Append(SuccessfulRecords(n - 1), RecordOf(sent[n], received[n]))
       ELSE SuccessfulRecords(n - 1)

\* the fetch has returned after requesting every pair, with the table of
\* the successful requests
FetchComplete ==
  /\ pc = "process_weather_data"
  /\ SentRequests = ExpectedRequests
  /\ Len(received) = Len(sent)
  /\ weather_df = DataFrame(SuccessfulRecords(Len(received)))

C6_OnePauseBetweenRequests ==
  /\ [](Weather =>
          /\ Len(sent) - Len(received) \in {0, 1}
          /\ \A k \in 1..(Len(sent) - 1) : sent[k + 1].t - sent[k].t = 1)
  /\ [][Weather /\ Len(sent') = Len(sent) + 1 =>
          Len(received) = Len(sent) /\ clock = Len(sent)]_vars

\* a request of the second region has been issued after a failed last
\* request of the first region
C6_Witness ==
  /\ Weather
  /\ Len(sent) = 3
  /\ sent[2].row = 1
  /\ sent[3].row = 2
  /\ received[1].status_code = 200
  /\ received[2].status_code # 200

\* the rows of the merged table that come from boundary row i
MergedRowsOf(i) ==
  {k \in 1..Len(merged_df.rows) : merged_df.rows[k].left.GID_1 = gdf.GID_1[i]}

\* the rows of the weather table with the coordinate of boundary row i
WeatherRowsAt(i) ==
  {k \in 1..Len(weather_df.index) :
     /\ weather_df.latitude[k] = gdf.latitude[i]
     /\ weather_df.longitude[k] = gdf.longitude[i]}

\* C7: the merged table contains every boundary row, unchanged; a row
\* whose coordinate is in the weather table appears once per weather row
\* of that coordinate, joined with that row's fields; a row without a
\* match appears exactly once, with empty weather fields; rows keep the
\* order of the boundary table.
C7_LeftJoin ==
  (Weather /\ merged_df # None) =>
    /\ \A i \in 1..NRows :
         /\ MergedRowsOf(i) # {}
         /\ \A k \in MergedRowsOf(i) : merged_df.rows[k].left = RowsOf(gdf)[i]
         /\ IF WeatherRowsAt(i) # {}
            THEN /\ Cardinality(MergedRowsOf(i)) = Cardinality(WeatherRowsAt(i))
                 /\ \A w \in WeatherRowsAt(i) :
                      \E k \in MergedRowsOf(i) :
                         merged_df.rows[k].right = RowsOf(weather_df)[w]
            ELSE /\ Cardinality(MergedRowsOf(i)) = 1
                 /\ \A k \in MergedRowsOf(i) : merged_df.rows[k].right = NaN
    /\ \A k \in 1..(Len(merged_df.rows) - 1) :
         merged_df.rows[k].left.GID_1 <= merged_df.rows[k + 1].left.GID_1

\* a merge in which one region has two weather rows and the other none
C7_Witness ==
  /\ Weather
  /\ merged_df # None
  /\ NRows = 2
  /\ gdf.geometry[1] # gdf.geometry[2]
  /\ Cardinality(WeatherRowsAt(1)) = 2
  /\ WeatherRowsAt(2) = {}
  /\ Len(merged_df.rows) = 3
  /\ merged_df.rows[3].right = NaN

\* C8 as stated: the coordinates of a multi-polygon row have one outer
\* entry per constituent polygon, the exterior ring of that polygon.
C8_OneEntryPerPolygon ==
  "coordinates" \in DOMAIN gdf =>
    \A k \in 1..NRows :
       gdf.geometry[k].geom_type = "MultiPolygon" =>
         /\ Len(gdf.coordinates[k]) = Len(gdf.geometry[k].polygons)
         /\ \A p \in 1..Len(gdf.geometry[k].polygons) :
              gdf.coordinates[k][p] = gdf.geometry[k].polygons[p]

LoaderLabels == {"convert_coordinates", "get_centroid_coordinates", "centroid_loop"}

\* C9 as stated: a table with an invalid geometry does not stop the
\* loader; past the loader the table has the same rows and the two
\* derived columns.
C9_InvalidGeometryNoError ==
  (\E k \in 1..NRows : ~gdf.geometry[k].is_valid) =>
    /\ pc # "raised"
    /\ pc \notin LoaderLabels =>
         /\ {"coordinates", "centroid_coordinates"} \subseteq DOMAIN gdf
         /\ Len(gdf.coordinates) = NRows

\* the rows with a valid geometry
ValidRows == {k \in 1..NRows : gdf.geometry[k].is_valid}

\* the j-th valid row
NthValidRow(j) ==
  CHOOSE k \in ValidRows : Cardinality({v \in ValidRows : v <= k}) = j

\* the loop of get_centroid_coordinates is over
CentroidsComputed ==
  pc \notin {"convert_coordinates", "get_centroid_coordinates"}
  /\ ~(pc = "centroid_loop" /\ row <= NRows)

\* C10: the list get_centroid_coordinates returns holds the (latitude,
\* longitude) of the centroid of every valid geometry, in row order, and
\* nothing for an invalid one: it is as long as there are valid rows, and
\* shorter than the table when some geometry is invalid.
C10_CentroidsOfValidRows ==
  CentroidsComputed =>
    /\ Len(centroids) = Cardinality(ValidRows)
    /\ \A j \in 1..Len(centroids) :
         centroids[j] = <<gdf.geometry[NthValidRow(j)].centroid.y,
                          gdf.geometry[NthValidRow(j)].centroid.x>>
    /\ (ValidRows # 1..NRows) => Len(centroids) < NRows

\* the loop is over for a table of an invalid row followed by a valid one
C10_Witness ==
  /\ pc = "centroid_loop"
  /\ row > NRows
  /\ NRows = 2
  /\ ValidRows = {2}
  /\ Len(centroids) = 1

\* the latitudes and the longitudes of the vertices of a geometry
Latitudes(geometry) == {c[2] : c \in Coords(geometry)}
Longitudes(geometry) == {c[1] : c \in Coords(geometry)}

\* C11: the bounding box sent for a region is (min-lat, min-lon, max-lat,
\* max-lon) of the region's geometry, i.e. the bounds (min-lon, min-lat,
\* max-lon, max-lat) with each pair swapped, and has min-lat <= max-lat
\* and min-lon <= max-lon.
C11_BboxLatLonOrder ==
  Osm =>
    \A k \in 1..Len(sent) :
       LET geometry == gdf.geometry[sent[k].row]
           bbox == sent[k].params.bbox
       IN  /\ Len(bbox) = 4
           /\ bbox[1] \in Latitudes(geometry)
           /\ \A v \in Latitudes(geometry) : bbox[1] <= v /\ v <= bbox[3]
           /\ bbox[3] \in Latitudes(geometry)
           /\ bbox[2] \in Longitudes(geometry)
           /\ \A v \in Longitudes(geometry) : bbox[2] <= v /\ v <= bbox[4]
           /\ bbox[4] \in Longitudes(geometry)
           /\ bbox[1] <= bbox[3]
           /\ bbox[2] <= bbox[4]

\* the box of the two squares at longitude 22..28, latitude 11..13 was sent
C11_Witness ==
  /\ Osm
  /\ \E k \in 1..Len(sent) :
       /\ gdf.geometry[sent[k].row] = MultiB
       /\ sent[k].params.bbox = <<11, 22, 13, 28>>

\* fetch_node_coordinates is running or has returned
InNodes == pc \in {"fetch_node_coordinates", "for_chunk", "nodes_requests_get",
                   "nodes_returned"}

NodesReturned == pc = "nodes_returned"

\* the ids of the k-th request of fetch_node_coordinates
GroupSent(k) == sent[k].params.data[2]

\* C12: the k-th request of fetch_node_coordinates asks for the ids at
\* positions 50(k-1)+1 .. 50k of the list (fewer in the last group, never
\* none); a call that has returned has issued ceil(n / 50) requests, none
\* for an empty list, and its groups in order are the list.
C12_FixedSizeGroups ==
  InNodes =>
    /\ \A k \in 1..Len(sent) :
         /\ Len(GroupSent(k)) \in 1..50
         /\ k < Len(sent) => Len(GroupSent(k)) = 50
         /\ \A j \in 1..Len(GroupSent(k)) :
              /\ 50 * (k - 1) + j <= Len(node_ids)
              /\ GroupSent(k)[j] = node_ids[50 * (k - 1) + j]
    /\ Len(sent) <= CeilDiv(Len(node_ids), 50)
    /\ NodesReturned =>
         /\ Len(sent) = CeilDiv(Len(node_ids), 50)
         /\ Flatten([k \in 1..Len(sent) |-> GroupSent(k)]) = node_ids
         /\ node_ids = << >> => sent = << >>

\* a call on 101 ids has returned: groups of 50, 50 and 1
C12_Witness ==
  /\ NodesReturned
  /\ Len(node_ids) = 101
  /\ Len(sent) = 3
  /\ Len(GroupSent(2)) = 50
  /\ Len(GroupSent(3)) = 1

\* the coordinates the k-th response holds for the ids of the k-th group
GroupCoordinates(k) ==
  LET elements == received[k].json.elements
      found == SelectSeq(GroupSent(k),
                 LAMBDA id : \E e \in 1..Len(elements) : elements[e].id = id)
  IN  [j \in 1..Len(found) |->
         LET e == CHOOSE e \in 1..Len(elements) : elements[e].id = found[j]
         IN  <<elements[e].lat, elements[e].lon>>]

\* the coordinates of the first n groups, those answered with status 200
RECURSIVE CollectedCoordinates(_)
CollectedCoordinates(n) ==
  IF n = 0 THEN << >>
  ELSE IF received[n].status_code = 200
       THEN CollectedCoordinates(n - 1) \o GroupCoordinates(n)
       ELSE CollectedCoordinates(n - 1)

\* a step in which the response for a group of node ids arrives
NodesArrive == InNodes /\ Len(received') = Len(received) + 1

\* C13: a response for a group with a status other than 200 adds no
\* coordinates, prints one line naming the group and the status, and
\* leaves the loop running; a call that has returned has queried every
\* group and returns the coordinates of the groups answered with 200.
C13_FailedGroupNotFatal ==
  /\ [][NodesArrive /\ received'[Len(received')].status_code # 200 =>
          /\ coordinates' = coordinates
          /\ stdout' = Append(stdout,
                <<"Failed to fetch data for nodes", GroupSent(Len(sent)),
                  "Status code:", received'[Len(received')].status_code>>)
          /\ pc' = "for_chunk"
          /\ exc' = ""]_vars
  /\ [](NodesReturned =>
          /\ Len(sent) = CeilDiv(Len(node_ids), 50)
          /\ Len(received) = Len(sent)
          /\ coordinates = CollectedCoordinates(Len(received)))

\* a call on 101 ids has returned after its second group failed
C13_Witness ==
  /\ NodesReturned
  /\ Len(node_ids) = 101
  /\ Len(received) = 3
  /\ received[1].status_code = 200
  /\ received[2].status_code # 200
  /\ received[3].status_code = 200
  /\ Len(coordinates) = 51

\* the columns of gdf_to_save that are not the geometry
PlainColumns == DOMAIN gdf_to_save \ {"index", "geometry"}

\* the weather fetch and the merge are complete
FetchedAndMerged ==
  /\ Returned
  /\ SentRequests = ExpectedRequests
  /\ Len(received) = Len(sent)
  /\ merged_df # None

\* the file written f-th is the f-th artifact, with the rows of gdf_to_save
ArtifactOfGdfToSave(f) ==
  LET content == files[f][2]
      n == Len(gdf_to_save.index)
  IN  CASE f = 1 ->
             /\ files[f][1] = "openweathermap_for_sdn_by_state.csv"
             /\ content.columns = PlainColumns
             /\ Len(content.lines) = n
             /\ \A k \in 1..n : \A c \in PlainColumns :
                  content.lines[k][c] = gdf_to_save[c][k]
        [] f = 2 ->
             /\ files[f][1] = "openweathermap_for_sdn_by_state.json"
             /\ Len(content) = n
             /\ \A k \in 1..n :
                  /\ DOMAIN content[k] = PlainColumns
                  /\ \A c \in PlainColumns : content[k][c] = gdf_to_save[c][k]
        [] f = 3 ->
             /\ files[f][1] = "openweathermap_for_sdn_by_state.geojson"
             /\ Len(content) = n
             /\ \A k \in 1..n :
                  /\ content[k].geometry = gdf_to_save.geometry[k]
                  /\ DOMAIN content[k].fields = PlainColumns
                  /\ \A c \in PlainColumns :
                       content[k].fields[c] = gdf_to_save[c][k]
        [] f = 4 ->
             /\ files[f][1] = "openweathermap_for_sdn_by_state.shp"
             /\ Len(content) = n
             /\ \A k \in 1..n :
                  /\ content[k].geometry = gdf_to_save.geometry[k]
                  /\ Cardinality(DOMAIN content[k].fields) =
                       Cardinality(PlainColumns)
                  /\ \A c \in PlainColumns :
                       /\ LaunderedName[c] \in DOMAIN content[k].fields
                       /\ content[k].fields[LaunderedName[c]] = gdf_to_save[c][k]
        [] OTHER -> FALSE

\* C14: a weather file is written only when the fetch has returned and
\* the merge is done; the four files are the CSV, the JSON records, the
\* GeoJSON and the Shapefile, each with the rows of gdf_to_save; the CSV
\* and the JSON have every column but the geometry, the GeoJSON and the
\* Shapefile carry the geometry of every row; gdf_to_save keeps its
\* geometry column and, once assigned, is never changed by an export.
C14_ExportsFromGdfToSave ==
  /\ [](Weather /\ files # << >> =>
          /\ FetchedAndMerged
          /\ gdf_to_save # None
          /\ "geometry" \in DOMAIN gdf_to_save
          /\ Len(gdf_to_save.geometry) = Len(merged_df.rows)
          /\ \A k \in 1..Len(merged_df.rows) :
               gdf_to_save.geometry[k] = merged_df.rows[k].left.geometry
          /\ \A f \in 1..Len(files) : ArtifactOfGdfToSave(f))
  /\ [][Weather /\ gdf_to_save # None => gdf_to_save' = gdf_to_save]_vars

\* the four files of a two-region run are written, the last row being a
\* region without weather
C14_Witness ==
  /\ Weather
  /\ pc = "done"
  /\ Len(files) = 4
  /\ NRows = 2
  /\ Len(gdf_to_save.index) = 3
  /\ gdf_to_save.date[3] = NaN
  /\ files[4][2][3].geometry = gdf.geometry[2]
  /\ files[3][2][1].geometry = gdf.geometry[1]

\* C15 as stated: once the Overpass request for region k has failed (a
\* status other than 200), the element lists fetched for the regions
\* before k are not attached to the boundary table and are in no file.
C15_FailureLosesProgress ==
  Osm =>
    \A k \in 1..Len(received) :
       received[k].status_code # 200 =>
         \A j \in 1..(k - 1) :
            /\ "osm_data" \notin DOMAIN gdf
            /\ \A f \in 1..Len(files) : "osm_data" \notin DOMAIN files[f][2]

RecordColumns == {"latitude", "longitude", "timezone", "date", "data"}

\* C16: at every moment the record list holds, in request order, one
\* record for each request answered with status 200 and none for any
\* other, each with the coordinate and the date of its own request, the
\* timezone '+02:00' and the payload of its response; no step changes or
\* removes a record that is in the list; the table the fetch returns has
\* exactly these records as its rows.
C16_OneRecordPer200 ==
  /\ [](Weather => weather_records = SuccessfulRecords(Len(received)))
  /\ [][Weather => IsPrefix(weather_records, weather_records')]_vars
  /\ [](Weather /\ pc = "process_weather_data" =>
          /\ Len(weather_df.index) = Len(weather_records)
          /\ \A k \in 1..Len(weather_records) :
               /\ DOMAIN weather_df = RecordColumns \cup {"index"}
               /\ \A c \in RecordColumns :
                    weather_df[c][k] = weather_records[k][c])

\* a fetch of two regions and two dates has returned; its first and last
\* requests failed, the second and third succeeded
C16_Witness ==
  /\ Weather
  /\ pc = "process_weather_data"
  /\ Len(received) = 4
  /\ received[1].status_code # 200
  /\ received[2].status_code = 200
  /\ received[3].status_code = 200
  /\ received[4].status_code # 200
  /\ Len(weather_df.index) = 2
  /\ weather_df.latitude[1] # weather_df.latitude[2]
  /\ weather_df.date[1] # weather_df.date[2]

\* the OSM loop has completed without raising
OsmLoopComplete ==
  /\ Osm
  /\ pc # "raised"
  /\ pc \in {"osm_to_csv", "osm_to_json", "osm_to_file", "done"}
     \/ (pc = "osm_for_row" /\ row > NRows)

\* C17 as stated: when the OSM loop has completed without raising,
\* osm_data has one entry per region, entry i being the 'elements' array
\* of the response for region i's bounding box (the empty list without
\* that field), never a missing value; the column assigned to the table
\* is that list.
C17_OwnElementList ==
  OsmLoopComplete =>
    /\ Len(osm_data) = NRows
    /\ Len(received) = NRows
    /\ \A r \in 1..NRows :
         /\ sent[r].params.bbox = get_bbox_from_multipolygon(gdf.geometry[r])
         /\ osm_data[r] # NoneList
         /\ osm_data[r] = IF "elements" \in DOMAIN received[r].json
                          THEN received[r].json.elements ELSE << >>
    /\ "osm_data" \in DOMAIN gdf => gdf.osm_data = osm_data

\* the boundary rows have pairwise distinct centroids
DistinctCentroids ==
  \A a, b \in 1..NRows :
     a # b => gdf.geometry[a].centroid # gdf.geometry[b].centroid

\* the requests of region r that were answered with status 200
SuccessesOf(r) ==
  {n \in 1..Len(received) : sent[n].row = r /\ received[n].status_code = 200}

\* the cells between the return of the fetch and the merged table
MergeLabels == {"process_weather_data", "latitude_longitude", "merge"}

\* C18 as stated: whatever the outcomes of the weather requests issued,
\* none succeeding included, a run over rows with pairwise distinct
\* centroids gets past the merge, and the merged table has for each region one row
\* per successful request of the region, each with a record fetched for
\* the region's own centroid, or one row with empty weather fields when
\* none of its requests succeeded.
C18_MergePerRegion ==
  (Weather /\ Returned /\ DistinctCentroids /\ sent # << >>) =>
    /\ pc # "raised"
    /\ pc \notin MergeLabels =>
         /\ merged_df # None
         /\ \A r \in 1..NRows :
              IF SuccessesOf(r) # {}
              THEN /\ Cardinality(MergedRowsOf(r)) = Cardinality(SuccessesOf(r))
                   /\ \A k \in MergedRowsOf(r) :
                        IF merged_df.rows[k].right = NaN THEN FALSE
                        ELSE /\ merged_df.rows[k].right.latitude =
                                  gdf.geometry[r].centroid.y
                             /\ merged_df.rows[k].right.longitude =
                                  gdf.geometry[r].centroid.x
                             /\ \E n \in SuccessesOf(r) :
                                  merged_df.rows[k].right.date = sent[n].params.date
              ELSE /\ Cardinality(MergedRowsOf(r)) = 1
                   /\ \A k \in MergedRowsOf(r) : merged_df.rows[k].right = NaN

\* C19: a fetch that has been called returns; every response, whatever
\* its status, moves the current date forward by exactly 7 days and no
\* step moves it back within a region; a fetch that has returned has
\* issued (number of regions) * (floor((end - start) / 7) + 1) requests
\* when start <= end, and none when start is after end, in which case the
\* table returned is empty.
C19_TerminatesWithRequestCount ==
  /\ (Weather /\ pc = "fetch_weather") ~> (Returned /\ pc # "raised")
  /\ [][Arrives => /\ current_date' = current_date + 7
                   /\ current_date' > current_date]_vars
  /\ [](Returned =>
          IF strptime(start_date) <= strptime(end_date)
          THEN Len(sent) = NRows * ((DaysInRange \div 7) + 1)
          ELSE /\ sent = << >>
               /\ weather_records = << >>
               /\ Len(weather_df.index) = 0)

\* a fetch of two regions over a range of seven days has returned after
\* two requests per region, the first of which failed
C19_Witness ==
  /\ Returned
  /\ DaysInRange = 7
  /\ NRows = 2
  /\ RequestsFor(1) = 2
  /\ RequestsFor(2) = 2
  /\ received[1].status_code # 200
  /\ current_date = strptime(end_date) + 7
====
